---- MODULE Spec2Model ----
(***************************************************************************)
(* Model of scripts/process_pr_reviews.js: the aggregation pass of         *)
(* processData() over the pull requests of one snapshot.                   *)
(*                                                                         *)
(* The snapshot is read node by node.  StartPR is the head of the          *)
(* pullRequests.nodes.forEach callback (lines 72-76), RequestNode is the   *)
(* reviewRequests.nodes.map callback (lines 105-115), ReviewNode is the    *)
(* reviews.nodes.forEach callback (lines 120-145) and FinishPR is the rest *)
(* of the pull request callback (lines 147-274).  Load is the reading of   *)
(* the file and the head of processData (lines 15-66), GenerateReport the  *)
(* call of generateHtmlReport (lines 285-297, 1402, 1537, 1605, 1632-1637).*)
(*                                                                         *)
(* The snapshot is a GitHub GraphQL response: pull request numbers are    *)
(* unique.  The script reads it from a file, so the reviewRequests of a    *)
(* pull request may name a login more than once.  The object               *)
(* pendingReviewers (lines 41, 192-210) is written and never read; it is   *)
(* left out.                                                               *)
(*                                                                         *)
(* JavaScript objects used as maps (reviewerStatus, reviewers, authors,    *)
(* reviewerNames, authorNames) iterate their string keys in insertion      *)
(* order; they are modelled as sequences of entries with unique keys.      *)
(* Logins are taken to be non-numeric strings, for which that iteration    *)
(* order is exact.                                                         *)
(*                                                                         *)
(* A title is a sequence of characters, and extractJiraIds (lines 4-9)     *)
(* searches it as the regular expression does.  jiraLinks is the list of   *)
(* the anchors that the code joins into one string.  Rerun is a second     *)
(* run of the script on the file of the first.                             *)
(***************************************************************************)
EXTENDS Integers, Sequences, FiniteSets, TLC

\* ------------------------------------------------------------------ bounds
\* nodes of a snapshot of several pull requests (pull requests, reviewRequests
\* nodes and reviews nodes)
MaxNodes == 4
\* nodes of a snapshot of one pull request
MaxPRNodes == 5
\* reviews nodes of the pull request folded under SpecResolve
MaxLog == 3
\* reviewRequests nodes of the pull request read under SpecExtract
MaxRequests == 3
\* nodes of a snapshot of two pull requests with creation times
MaxAgeNodes == 8
\* nodes of a snapshot read while the clock advances
MaxClockNodes == 3
\* age in days of the oldest pull request of the snapshots of SpecTier
MaxAge == 8
\* words of a title
MaxWords == 3
\* nodes of a snapshot with names
MaxNameNodes == 3
\* nodes of a snapshot with drafts
MaxDraftNodes == 5
\* nodes of a snapshot the script is run on twice
MaxRunNodes == 3

\* --------------------------------------------------------------- constants
REQUIRED_APPROVALS == 3
\* Time is counted in ticks of twelve hours: the 1000 * 60 * 60 * 24 ms of a
\* day are two ticks.
Day == 2

\* The logins of a snapshot, named in the order of their first occurrence in it
\* (the code compares logins for equality only).
LoginOrder == <<"alice", "bob", "carol", "dave", "erin">>
Logins == {LoginOrder[i] : i \in 1..Len(LoginOrder)}
FoldLogins == {"alice", "bob"}

\* an absent login (pr.author, review.author or requestedReviewer.login missing)
NoLogin == "<absent>"
\* reviewerStatus[reviewer] of a reviewer without an entry (JavaScript undefined)
NoState == "<undefined>"
\* a reviewRequests node whose requestedReviewer is null
NoReviewer == "<null>"

ReviewStates == {"APPROVED", "CHANGES_REQUESTED", "COMMENTED", "DISMISSED", "PENDING"}
\* a state string outside the five of reviewStateMap
OtherState == "OTHER"

\* the authors and the review states of the pull requests that are read node
\* by node with a log
FoldAuthors == {"alice", NoLogin}
FoldStates == ReviewStates \cup {OtherState}

\* no error ended the run
NoError == "<none>"
\* readFileSync or readFile fails, JSON.parse throws, or
\* prData.data.repository.pullRequests.nodes does not exist (TypeError)
LoadErrors == {"unreadable", "unparseable", "no collection"}

\* an absent display name (author.name or requestedReviewer.name missing)
NoName == "<no name>"
\* the display names of a snapshot
Names == {"Ann", "Bea"}

\* pr.isDraft as the snapshot carries it: true, false or absent
NoFlag == "<absent>"
DraftFlags == {"true", "false", NoFlag}

\* A title is a sequence of characters; an absent pr.title is the sequence of
\* the one element that is no character.
NoTitle == <<"<absent>">>

\* --------------------------------------------------------------- variables
VARIABLES
    pc,                 \* position of the run
    prNumber,           \* pr.number of the pull request being processed
    authorLogin,        \* pr.author?.login (NoLogin when absent)
    requestedReviewers, \* requestedReviewers of the current pull request
    reviewerStatus,     \* reviewerStatus of the current pull request
    reviewers,          \* reviewers: login -> { pending, prDetails }
    authors,            \* authors: login -> { count, prDetails }
    readyToMergePRs,    \* readyToMergePRs
    quota,              \* limits of the snapshots of the run: pull requests and nodes at
                        \* most, the logins, review states, creation times, shapes,
                        \* words of a title, draft flags and names that occur, the
                        \* ticks of the clock during the run, the runs on the snapshot
    nodesRead,          \* nodes of the snapshot read so far
    selfReviewed,       \* a reviews node of the current pull request was written by its author
    reviewLog,          \* reviews nodes of the current pull request (SpecResolve only)
    processed,          \* per processed pull request: what its callback resolved
    occurred,           \* number of distinct logins that occurred in the snapshot so far
    error,              \* what ended the run before its report, NoError otherwise
    report,             \* <<>>, or the one report written
    totalOpenPRs,       \* totalOpenPRs: length of pullRequests.nodes
    clock,              \* the wall clock, in ticks since the start of the run
    lastUpdatedUTC,     \* lastUpdatedUTC
    createdAt,          \* pr.createdAt of the current pull request, in ticks
    daysOpen,           \* daysOpen of the current pull request
    absent,             \* which collections the current pull request lacks
    requestLog,         \* reviewRequests nodes of the current pull request (SpecExtract only)
    prTitle,            \* prTitle of the current pull request
    isDraft,            \* isDraft of the current pull request
    jiraLinks,          \* jiraLinks of the current pull request
    reviewerNames,      \* reviewerNames: login -> name
    authorNames,        \* authorNames: login -> name
    nameLog,            \* the nodes read so far that carry a name, in reading order
    run,                \* 1 in the first run of the script on the snapshot, 2 in the second
    snapshot,           \* the nodes read by the first run when a second one follows
    cursor,             \* nodes of the snapshot read by the second run
    earlier             \* <<>>, or what the first run produced

vars == <<quota, pc, prNumber, authorLogin, requestedReviewers, reviewerStatus, reviewers,
          authors, readyToMergePRs, nodesRead, selfReviewed,
          reviewLog, processed, occurred, error, report, totalOpenPRs, clock,
          lastUpdatedUTC, createdAt, daysOpen, absent, requestLog, prTitle, isDraft,
          jiraLinks, reviewerNames, authorNames, nameLog, run, snapshot, cursor, earlier>>

\* ------------------------------------------------- insertion-ordered maps
\* A map is a sequence of records with a field key; keys are unique.
Keys(m) == {m[i].key : i \in 1..Len(m)}

HasKey(m, k) == \E i \in 1..Len(m) : m[i].key = k

IndexOf(m, k) == CHOOSE i \in 1..Len(m) : m[i].key = k

\* obj[k] = v: an existing key keeps its position, a new key goes last
Put(m, k, e) ==
    IF HasKey(m, k)
    THEN [i \in 1..Len(m) |-> IF m[i].key = k THEN e ELSE m[i]]
    ELSE Append(m, e)

\* reviewerStatus[reviewer]
StateOf(status, reviewer) ==
    IF HasKey(status, reviewer) THEN status[IndexOf(status, reviewer)].state ELSE NoState

Contains(s, x) == \E i \in 1..Len(s) : s[i] = x

\* ------------------------------------------- review state resolution (fold)
\* FoldReview with the last review of a reviewer always taken
FoldReviewLastWins(status, review, prAuthorLogin) ==
    IF review.login = NoLogin \/ review.login = prAuthorLogin
    THEN status
    ELSE Put(status, review.login, [key |-> review.login, state |-> review.state])

\* FoldReview without the test for the author of the pull request
FoldReviewCountsSelf(status, review, prAuthorLogin) ==
    LET reviewer == review.login
        currentState == StateOf(status, reviewer)
        newState == review.state
    IN  IF reviewer = NoLogin
        THEN status
        ELSE IF \/ currentState = NoState
                \/ newState = "CHANGES_REQUESTED"
                \/ (currentState # "CHANGES_REQUESTED" /\ newState = "APPROVED")
                \/ (/\ currentState # "CHANGES_REQUESTED"
                    /\ currentState # "APPROVED"
                    /\ newState = "COMMENTED")
             THEN Put(status, reviewer, [key |-> reviewer, state |-> newState])
             ELSE status

\* The body of the reviews.nodes.forEach callback: the value of reviewerStatus
\* after the callback has run on one review node.
FoldReview(status, review, prAuthorLogin) ==
    LET reviewer == review.login
        currentState == StateOf(status, reviewer)
        newState == review.state
    IN  IF reviewer = NoLogin \/ reviewer = prAuthorLogin
        THEN status
        ELSE IF \/ currentState = NoState
                \/ newState = "CHANGES_REQUESTED"
                \/ (currentState # "CHANGES_REQUESTED" /\ newState = "APPROVED")
                \/ (/\ currentState # "CHANGES_REQUESTED"
                    /\ currentState # "APPROVED"
                    /\ newState = "COMMENTED")
             THEN Put(status, reviewer, [key |-> reviewer, state |-> newState])
             ELSE status

\* reviews.nodes.forEach over a whole list of review nodes
RECURSIVE ResolveReviews(_, _, _)
ResolveReviews(status, reviews, prAuthorLogin) ==
    IF reviews = <<>>
    THEN status
    ELSE ResolveReviews(FoldReview(status, Head(reviews), prAuthorLogin),
                        Tail(reviews), prAuthorLogin)

\* ------------------------------------------------------------ derived fields
\* Math.floor((lastUpdatedDate - prCreatedDate) / (1000 * 60 * 60 * 24)), both
\* times in ticks; \div rounds towards minus infinity, as Math.floor does
DaysOpen(lastUpdatedDate, prCreatedDate) == (lastUpdatedDate - prCreatedDate) \div Day

\* the draft flag of a pull request: pr.isDraft || false
IsDraft(flag) == IF flag = "true" THEN TRUE ELSE FALSE

\* ------------------------------------------------------- ticket references
Digits == {"0", "1", "2", "3", "4", "5", "6", "7", "8", "9"}

\* the literal part of the regular expression /OCMUI-\d+/g
JiraPrefix == <<"O", "C", "M", "U", "I", "-">>

\* the last position of the digits that start at position i of str, i - 1 if
\* there is no digit at i (\d+ is greedy)
RECURSIVE DigitsEnd(_, _)
DigitsEnd(str, i) ==
    IF i <= Len(str) /\ str[i] \in Digits THEN DigitsEnd(str, i + 1) ELSE i - 1

\* MatchEnd with one digit taken only
MatchEndOneDigit(str, i) ==
    IF /\ i + Len(JiraPrefix) <= Len(str)
       /\ SubSeq(str, i, i + Len(JiraPrefix) - 1) = JiraPrefix
       /\ str[i + Len(JiraPrefix)] \in Digits
    THEN i + Len(JiraPrefix)
    ELSE 0

\* the last position of the match of /OCMUI-\d+/ that starts at position i of
\* str, 0 if none starts there
MatchEnd(str, i) ==
    IF /\ i + Len(JiraPrefix) <= Len(str)
       /\ SubSeq(str, i, i + Len(JiraPrefix) - 1) = JiraPrefix
       /\ str[i + Len(JiraPrefix)] \in Digits
    THEN DigitsEnd(str, i + Len(JiraPrefix))
    ELSE 0

\* str.match(regex) || [] from position i on: the matches from left to right,
\* the search going on behind each match
RECURSIVE Match(_, _)
Match(str, i) ==
    IF i > Len(str)
    THEN <<>>
    ELSE IF MatchEnd(str, i) > 0
         THEN <<SubSeq(str, i, MatchEnd(str, i))>> \o Match(str, MatchEnd(str, i) + 1)
         ELSE Match(str, i + 1)

\* Color with the thresholds included in the upper tiers
ColorInclusive(days) ==
    IF days >= 6 THEN "red"
    ELSE IF days >= 4 THEN "orange"
    ELSE IF days >= 2 THEN "yellow"
    ELSE "#d4d4d4"

Color(days) ==
    IF days > 6 THEN "red"
    ELSE IF days > 4 THEN "orange"
    ELSE IF days > 2 THEN "yellow"
    ELSE "#d4d4d4"

\* ------------------------------------------------------ status classifier
IsApproved(e) == e.state = "APPROVED"

ApprovalCount(status) == Len(SelectSeq(status, IsApproved))

\* PrStatus with the test for requested changes made first
PrStatusChangesFirst(status) ==
    IF \E i \in 1..Len(status) : status[i].state = "CHANGES_REQUESTED"
    THEN "changes_requested"
    ELSE IF ApprovalCount(status) >= REQUIRED_APPROVALS
         THEN "ready_to_merge"
         ELSE "needs_review"

\* PrStatus with the threshold met only by exactly REQUIRED_APPROVALS approvals
PrStatusExactThreshold(status) ==
    IF ApprovalCount(status) = REQUIRED_APPROVALS
    THEN "ready_to_merge"
    ELSE IF \E i \in 1..Len(status) : status[i].state = "CHANGES_REQUESTED"
         THEN "changes_requested"
         ELSE "needs_review"

PrStatus(status) ==
    IF ApprovalCount(status) >= REQUIRED_APPROVALS
    THEN "ready_to_merge"
    ELSE IF \E i \in 1..Len(status) : status[i].state = "CHANGES_REQUESTED"
         THEN "changes_requested"
         ELSE "needs_review"

\* Object.entries(reviewerStatus).filter(APPROVED).map(reviewer)
ReviewersWithApprovals(status) ==
    LET approved == SelectSeq(status, IsApproved)
    IN  [i \in 1..Len(approved) |-> approved[i].key]

\* PrAuthor without the sentinel
PrAuthorNoSentinel(login) == login

\* pr.author?.login || 'Unknown'
PrAuthor(login) == IF login = NoLogin THEN "Unknown" ELSE login

ReadyToMergeEntry(number, login, status, days, title, draft, links) ==
    [number |-> number,
     author |-> PrAuthor(login),
     daysOpen |-> days,
     title |-> title,
     isDraft |-> draft,
     jiraLinks |-> links,
     daysOpenColor |-> Color(days),
     approvals |-> ApprovalCount(status),
     requiredApprovals |-> REQUIRED_APPROVALS,
     approvedBy |-> ReviewersWithApprovals(status)]

\* ------------------------------------------------ reviewer-status annotation
\* String.prototype.toLowerCase on the state strings of the model
ToLowerCase(state) ==
    CASE state = "APPROVED" -> "approved"
      [] state = "CHANGES_REQUESTED" -> "changes_requested"
      [] state = "COMMENTED" -> "commented"
      [] state = "DISMISSED" -> "dismissed"
      [] state = "PENDING" -> "pending"
      [] state = "OTHER" -> "other"
      [] OTHER -> state

\* reviewStateMap[state] || state.toLowerCase()
StateLabel(state) ==
    CASE state = "APPROVED" -> "approved"
      [] state = "CHANGES_REQUESTED" -> "requested changes"
      [] state = "COMMENTED" -> "commented"
      [] state = "DISMISSED" -> "dismissed"
      [] state = "PENDING" -> "pending"
      [] OTHER -> ToLowerCase(state)

\* ReviewersWithStatus with a (requested) entry for every requested reviewer
ReviewersWithStatusAllRequested(requested, status) ==
    [i \in 1..Len(requested) |-> [login |-> requested[i], label |-> "requested"]]
        \o [i \in 1..Len(status) |->
               [login |-> status[i].key, label |-> StateLabel(status[i].state)]]

ReviewersWithStatus(requested, status) ==
    LET NotReviewed(r) == StateOf(status, r) = NoState
        waiting == SelectSeq(requested, NotReviewed)
    IN  [i \in 1..Len(waiting) |-> [login |-> waiting[i], label |-> "requested"]]
        \o [i \in 1..Len(status) |->
               [login |-> status[i].key, label |-> StateLabel(status[i].state)]]

\* ------------------------------------------------------------------ names
\* names[login] = name when the node has both a name and a login
StoreName(names, login, name) ==
    IF name # NoName /\ login \notin {NoLogin, NoReviewer}
    THEN Put(names, login, [key |-> login, name |-> name])
    ELSE names

\* the nodes with a name read so far, one more node read
LogName(log, role, login, name, prAuthorLogin) ==
    IF name = NoName
    THEN log
    ELSE Append(log, [role |-> role, login |-> login, name |-> name,
                      self |-> (role = "review" /\ login = prAuthorLogin)])

\* --------------------------------------------------- requested reviewers
\* requestedReviewers after one more reviewRequests node: map returns null for
\* a node without requestedReviewer and reviewer.login otherwise, and
\* filter(Boolean) drops null and an undefined login
ExtractRequest(requested, login) ==
    IF login \in {NoLogin, NoReviewer} THEN requested ELSE Append(requested, login)

\* ------------------------------------------------------------- aggregation
\* [...new Set(s)]: the first occurrence of every element, in order
RECURSIVE Unique(_)
Unique(s) ==
    IF s = <<>>
    THEN <<>>
    ELSE LET front == Unique(SubSeq(s, 1, Len(s) - 1))
             last == s[Len(s)]
         IN  IF Contains(front, last) THEN front ELSE Append(front, last)

\* extractJiraIds without the Set
extractJiraIdsAllMatches(str) ==
    IF str = NoTitle \/ str = <<>> THEN <<>> ELSE Match(str, 1)

\* extractJiraIds: nothing for an absent or empty title, else the matches
\* without repetition
extractJiraIds(str) ==
    IF str = NoTitle \/ str = <<>> THEN <<>> ELSE Unique(Match(str, 1))

\* the address the anchors of jiraLinks start with
JiraBrowse == <<"https://issues.redhat.com/browse/">>

\* jiraLinks: one anchor per id, in the order of the ids
JiraLinks(jiraIds) ==
    [i \in 1..Len(jiraIds) |-> [href |-> JiraBrowse \o jiraIds[i], text |-> jiraIds[i]]]

\* AllReviewers without the reviewers that are not requested
AllReviewersRequestedOnly(requested, status) == Unique(requested)

\* [...new Set([...requestedReviewers, ...Object.keys(reviewerStatus)])]
AllReviewers(requested, status) ==
    Unique(requested \o [i \in 1..Len(status) |-> status[i].key])

\* IsPending with every requested reviewer pending, reviewed or not
IsPendingRequestedWins(requested, status, reviewer) ==
    IF Contains(requested, reviewer)
    THEN TRUE
    ELSE IF StateOf(status, reviewer) # NoState
         THEN StateOf(status, reviewer) \in {"COMMENTED", "CHANGES_REQUESTED", "PENDING"}
         ELSE FALSE

IsPending(requested, status, reviewer) ==
    IF Contains(requested, reviewer) /\ StateOf(status, reviewer) = NoState
    THEN TRUE
    ELSE IF StateOf(status, reviewer) # NoState
         THEN StateOf(status, reviewer) \in {"COMMENTED", "CHANGES_REQUESTED", "PENDING"}
         ELSE FALSE

\* ReviewerSummary with the reviewer's own state in place of the status of the
\* pull request
ReviewerSummaryOwnState(number, login, requested, status, reviewer, days, title, draft, links) ==
    [number |-> number,
     author |-> PrAuthor(login),
     daysOpen |-> days,
     title |-> title,
     isDraft |-> draft,
     jiraLinks |-> links,
     daysOpenColor |-> Color(days),
     reviewers |-> ReviewersWithStatus(requested, status),
     approvals |-> ApprovalCount(status),
     status |-> IF HasKey(status, reviewer) THEN StateOf(status, reviewer) ELSE "review_required",
     isPending |-> IsPending(requested, status, reviewer),
     sortOrder |-> IF IsPending(requested, status, reviewer) THEN 0 ELSE 1]

\* prSummary pushed to reviewers[reviewer].prDetails
ReviewerSummary(number, login, requested, status, reviewer, days, title, draft, links) ==
    [number |-> number,
     author |-> PrAuthor(login),
     daysOpen |-> days,
     title |-> title,
     isDraft |-> draft,
     jiraLinks |-> links,
     daysOpenColor |-> Color(days),
     reviewers |-> ReviewersWithStatus(requested, status),
     approvals |-> ApprovalCount(status),
     status |-> PrStatus(status),
     isPending |-> IsPending(requested, status, reviewer),
     sortOrder |-> IF IsPending(requested, status, reviewer) THEN 0 ELSE 1]

\* TrackReviewer with pending incremented for every reviewer of the pull request
TrackReviewerCountsAll(revs, number, login, requested, status, reviewer, days, title, draft, links) ==
    LET known == IF HasKey(revs, reviewer)
                 THEN revs
                 ELSE Append(revs, [key |-> reviewer, pending |-> 0, prDetails |-> <<>>])
        agg == known[IndexOf(known, reviewer)]
        exists == \E i \in 1..Len(agg.prDetails) : agg.prDetails[i].number = number
        prDetails == IF exists
                     THEN agg.prDetails
                     ELSE Append(agg.prDetails,
                                 ReviewerSummary(number, login, requested, status, reviewer,
                                                 days, title, draft, links))
    IN  Put(known, reviewer,
            [key |-> reviewer, pending |-> agg.pending + 1, prDetails |-> prDetails])

\* TrackReviewer with the test of exists inverted
TrackReviewerInvertedExists(revs, number, login, requested, status, reviewer, days, title, draft, links) ==
    LET known == IF HasKey(revs, reviewer)
                 THEN revs
                 ELSE Append(revs, [key |-> reviewer, pending |-> 0, prDetails |-> <<>>])
        agg == known[IndexOf(known, reviewer)]
        pending == IF IsPending(requested, status, reviewer)
                   THEN agg.pending + 1
                   ELSE agg.pending
        exists == \E i \in 1..Len(agg.prDetails) : agg.prDetails[i].number = number
        prDetails == IF ~exists
                     THEN agg.prDetails
                     ELSE Append(agg.prDetails,
                                 ReviewerSummary(number, login, requested, status, reviewer,
                                                 days, title, draft, links))
    IN  Put(known, reviewer,
            [key |-> reviewer, pending |-> pending, prDetails |-> prDetails])

\* TrackReviewer with the summary list replaced by the new summary
TrackReviewerOverwrites(revs, number, login, requested, status, reviewer, days, title, draft, links) ==
    LET known == IF HasKey(revs, reviewer)
                 THEN revs
                 ELSE Append(revs, [key |-> reviewer, pending |-> 0, prDetails |-> <<>>])
        agg == known[IndexOf(known, reviewer)]
        pending == IF IsPending(requested, status, reviewer)
                   THEN agg.pending + 1
                   ELSE agg.pending
    IN  Put(known, reviewer,
            [key |-> reviewer,
             pending |-> pending,
             prDetails |-> <<ReviewerSummary(number, login, requested, status, reviewer,
                                             days, title, draft, links)>>])

\* the body of allReviewers.forEach for one reviewer
TrackReviewer(revs, number, login, requested, status, reviewer, days, title, draft, links) ==
    LET known == IF HasKey(revs, reviewer)
                 THEN revs
                 ELSE Append(revs, [key |-> reviewer, pending |-> 0, prDetails |-> <<>>])
        agg == known[IndexOf(known, reviewer)]
        pending == IF IsPending(requested, status, reviewer)
                   THEN agg.pending + 1
                   ELSE agg.pending
        exists == \E i \in 1..Len(agg.prDetails) : agg.prDetails[i].number = number
        prDetails == IF exists
                     THEN agg.prDetails
                     ELSE Append(agg.prDetails,
                                 ReviewerSummary(number, login, requested, status, reviewer,
                                                 days, title, draft, links))
    IN  Put(known, reviewer,
            [key |-> reviewer, pending |-> pending, prDetails |-> prDetails])

RECURSIVE TrackReviewers(_, _, _, _, _, _, _, _, _, _)
TrackReviewers(revs, number, login, requested, status, all, days, title, draft, links) ==
    IF all = <<>>
    THEN revs
    ELSE TrackReviewers(TrackReviewer(revs, number, login, requested, status, Head(all),
                                      days, title, draft, links),
                        number, login, requested, status, Tail(all), days, title, draft, links)

AuthorSummary(number, requested, status, days, title, draft, links) ==
    [number |-> number,
     daysOpen |-> days,
     title |-> title,
     isDraft |-> draft,
     jiraLinks |-> links,
     daysOpenColor |-> Color(days),
     reviewers |-> ReviewersWithStatus(requested, status),
     approvals |-> ApprovalCount(status),
     status |-> PrStatus(status)]

\* TrackAuthor with count set to 1 instead of incremented
TrackAuthorResets(auths, number, login, requested, status, days, title, draft, links) ==
    LET prAuthor == PrAuthor(login)
        known == IF HasKey(auths, prAuthor)
                 THEN auths
                 ELSE Append(auths, [key |-> prAuthor, count |-> 0, prDetails |-> <<>>])
        agg == known[IndexOf(known, prAuthor)]
    IN  Put(known, prAuthor,
            [key |-> prAuthor,
             count |-> 1,
             prDetails |-> Append(agg.prDetails, AuthorSummary(number, requested, status,
                                                               days, title, draft, links))])

\* TrackAuthor that leaves out the pull requests without author
TrackAuthorSkipsUnknown(auths, number, login, requested, status, days, title, draft, links) ==
    IF login = NoLogin
    THEN auths
    ELSE LET known == IF HasKey(auths, login)
                      THEN auths
                      ELSE Append(auths, [key |-> login, count |-> 0, prDetails |-> <<>>])
             agg == known[IndexOf(known, login)]
         IN  Put(known, login,
                 [key |-> login,
                  count |-> agg.count + 1,
                  prDetails |-> Append(agg.prDetails,
                                       AuthorSummary(number, requested, status,
                                                     days, title, draft, links))])

TrackAuthor(auths, number, login, requested, status, days, title, draft, links) ==
    LET prAuthor == PrAuthor(login)
        known == IF HasKey(auths, prAuthor)
                 THEN auths
                 ELSE Append(auths, [key |-> prAuthor, count |-> 0, prDetails |-> <<>>])
        agg == known[IndexOf(known, prAuthor)]
    IN  Put(known, prAuthor,
            [key |-> prAuthor,
             count |-> agg.count + 1,
             prDetails |-> Append(agg.prDetails, AuthorSummary(number, requested, status,
                                                               days, title, draft, links))])

\* TrackReady with the threshold test strict
TrackReadyStrict(ready, number, login, status, days, title, draft, links) ==
    IF ApprovalCount(status) > REQUIRED_APPROVALS
    THEN Append(ready, ReadyToMergeEntry(number, login, status, days, title, draft, links))
    ELSE ready

\* TrackReady that lists no draft
TrackReadySkipsDrafts(ready, number, login, status, days, title, draft, links) ==
    IF ApprovalCount(status) >= REQUIRED_APPROVALS /\ ~draft
    THEN Append(ready, ReadyToMergeEntry(number, login, status, days, title, draft, links))
    ELSE ready

TrackReady(ready, number, login, status, days, title, draft, links) ==
    IF ApprovalCount(status) >= REQUIRED_APPROVALS
    THEN Append(ready, ReadyToMergeEntry(number, login, status, days, title, draft, links))
    ELSE ready

\* ------------------------------------------------------------------- report
\* Array.prototype.sort is stable: the indices 1..n of a list in the order of
\* the sorted list, built by inserting each index behind the indices whose
\* key is not larger
InsertIndex(order, i, key) ==
    LET front == Cardinality({q \in 1..Len(order) : key[order[q]] <= key[i]})
    IN  SubSeq(order, 1, front) \o <<i>> \o SubSeq(order, front + 1, Len(order))

RECURSIVE SortIndices(_, _)
SortIndices(n, key) ==
    IF n = 0 THEN <<>> ELSE InsertIndex(SortIndices(n - 1, key), n, key)

\* s sorted by ascending key, key[i] being the key of s[i]
StableSort(s, key) ==
    LET order == SortIndices(Len(s), key)
    IN  [p \in 1..Len(s) |-> s[order[p]]]

\* SortBySortOrder with the comparator b.sortOrder - a.sortOrder
SortBySortOrderDescending(prDetails) ==
    StableSort(prDetails, [i \in 1..Len(prDetails) |-> 0 - prDetails[i].sortOrder])

\* [...data.prDetails].sort((a, b) => a.sortOrder - b.sortOrder)
SortBySortOrder(prDetails) ==
    StableSort(prDetails, [i \in 1..Len(prDetails) |-> prDetails[i].sortOrder])

\* SortByDaysOpen with the comparator a.daysOpen - b.daysOpen
SortByDaysOpenAscending(prDetails) ==
    StableSort(prDetails, [i \in 1..Len(prDetails) |-> prDetails[i].daysOpen])

\* sort((a, b) => b.daysOpen - a.daysOpen)
SortByDaysOpen(prDetails) ==
    StableSort(prDetails, [i \in 1..Len(prDetails) |-> 0 - prDetails[i].daysOpen])

\* what generateHtmlReport renders, in the order it renders it
Rendered(revs, auths, ready, total, updated) ==
    [totalOpenPRs |-> total,
     lastUpdatedUTC |-> updated,
     reviewers |-> [i \in 1..Len(revs) |->
                       [key |-> revs[i].key,
                        pending |-> revs[i].pending,
                        prDetails |-> SortBySortOrder(revs[i].prDetails)]],
     authors |-> [i \in 1..Len(auths) |->
                     [key |-> auths[i].key,
                      count |-> auths[i].count,
                      prDetails |-> SortByDaysOpen(auths[i].prDetails)]],
     readyToMergePRs |-> SortByDaysOpen(ready)]

\* ------------------------------------------------------------------ actions
\* the logins the next node of the snapshot can carry: those that occurred
\* before and the next new one
Usable == {LoginOrder[i] : i \in 1..(IF occurred < quota.logins THEN occurred + 1
                                                               ELSE quota.logins)}

\* the number of distinct logins after a node carrying login
Occurs(login) ==
    IF occurred < quota.logins /\ login = LoginOrder[occurred + 1]
    THEN occurred + 1
    ELSE occurred

\* a pull request with both of its collections
AllPresent == [reviewRequests |-> FALSE, reviews |-> FALSE]
\* pr.reviewRequests absent, pr.reviews absent, or both
Shapes == [reviewRequests : BOOLEAN, reviews : BOOLEAN]

\* the start of a run on snapshots within the limits q
InitRun(q) ==
    /\ quota = q
    /\ pc = "load"
    /\ error = NoError
    /\ report = <<>>
    /\ totalOpenPRs = 0
    /\ clock = 0
    /\ lastUpdatedUTC = 0
    /\ prNumber = 0
    /\ authorLogin = NoLogin
    /\ createdAt = 0
    /\ daysOpen = 0
    /\ absent = AllPresent
    /\ requestedReviewers = <<>>
    /\ reviewerStatus = <<>>
    /\ reviewers = <<>>
    /\ authors = <<>>
    /\ readyToMergePRs = <<>>
    /\ nodesRead = 0
    /\ selfReviewed = FALSE
    /\ requestLog = <<>>
    /\ reviewLog = <<>>
    /\ processed = <<>>
    /\ occurred = 0
    /\ prTitle = NoTitle
    /\ isDraft = FALSE
    /\ jiraLinks = <<>>
    /\ reviewerNames = <<>>
    /\ authorNames = <<>>
    /\ nameLog = <<>>
    /\ run = 1
    /\ snapshot = <<>>
    /\ cursor = 0
    /\ earlier = <<>>

Init ==
    InitRun([pullRequests |-> MaxNodes, nodes |-> MaxNodes, logins |-> Len(LoginOrder),
             states |-> ReviewStates, createdAts |-> {0}, ticks |-> 0,
             absent |-> {AllPresent},
             words |-> 0, drafts |-> {"false"}, names |-> {NoName}, runs |-> 1])

\* what the titles are made of
TitleWords ==
    {JiraPrefix \o <<"4", "2", " ">>,
     JiraPrefix \o <<"7">>,
     JiraPrefix,
     <<"P", "R", "O", "J", "E", "C", "T", "-", "1", "2", "3">>,
     <<"o", "c", "m", "u", "i", "-", "7">>,
     <<"4">>}

RECURSIVE Concat(_)
Concat(words) == IF words = <<>> THEN <<>> ELSE Head(words) \o Concat(Tail(words))

\* the titles of the pull requests of a snapshot whose titles have at most n
\* words: absent when n is 0, else absent, empty or made of up to n words
Titles(n) ==
    {NoTitle} \cup
        IF n = 0
        THEN {}
        ELSE UNION {{Concat(words) : words \in [1..k -> TitleWords]} : k \in 0..n}

\* The next node of the snapshot is node.  The first run of the script on a
\* file finds what the file holds, and keeps it when the script is run on the
\* file once more; the second run finds the same nodes in the same order.
ReadNode(node) ==
    /\ run = 1 \/ (cursor < Len(snapshot) /\ snapshot[cursor + 1] = node)
    /\ snapshot' = IF run = 1 /\ quota.runs > 1 THEN Append(snapshot, node) ELSE snapshot
    /\ cursor' = IF run = 1 THEN cursor ELSE cursor + 1

\* the file is read and parsed and processData is entered: the length of the
\* pull request collection and the time of the run are taken.  A file that
\* cannot be read, text that is not JSON and a snapshot without
\* data.repository.pullRequests.nodes end the run.
Load ==
    /\ pc = "load"
    /\ \/ \E e \in LoadErrors :
             /\ error' = e
             /\ pc' = "aborted"
             /\ UNCHANGED <<totalOpenPRs, lastUpdatedUTC, snapshot, cursor>>
       \/ \E n \in 0..quota.pullRequests :
             /\ ReadNode([kind |-> "pullRequests", length |-> n])
             /\ totalOpenPRs' = n
             /\ lastUpdatedUTC' = clock
             /\ pc' = "idle"
             /\ UNCHANGED error
    /\ UNCHANGED <<prTitle, isDraft, jiraLinks, reviewerNames, authorNames, nameLog, run,
                   earlier>>
    /\ UNCHANGED <<quota, report, clock, prNumber, authorLogin, createdAt, daysOpen, absent,
                   requestedReviewers, reviewerStatus, reviewers, authors, readyToMergePRs,
                   nodesRead, selfReviewed, requestLog, reviewLog, processed, occurred>>

\* the next entry of pullRequests.nodes is null: pr.number throws a TypeError,
\* which ends the run
MalformedPR ==
    /\ pc = "idle"
    /\ Len(processed) < totalOpenPRs
    /\ ReadNode([kind |-> "null"])
    /\ error' = "TypeError"
    /\ pc' = "aborted"
    /\ UNCHANGED <<prTitle, isDraft, jiraLinks, reviewerNames, authorNames, nameLog, run,
                   earlier>>
    /\ UNCHANGED <<quota, report, totalOpenPRs, clock, lastUpdatedUTC, prNumber, authorLogin,
                   createdAt, daysOpen, absent, requestedReviewers, reviewerStatus, reviewers,
                   authors, readyToMergePRs, nodesRead, selfReviewed, requestLog, reviewLog,
                   processed, occurred>>

\* the callback of pullRequests.nodes.forEach is entered for the next pull
\* request; pull requests are numbered in the order of the snapshot
StartPR ==
    /\ pc = "idle"
    /\ Len(processed) < totalOpenPRs
    /\ nodesRead < quota.nodes
    /\ \E login \in Usable \cup {NoLogin}, name \in quota.names, created \in quota.createdAts,
          shape \in quota.absent, title \in Titles(quota.words), flag \in quota.drafts :
          /\ ReadNode([kind |-> "pr", login |-> login, name |-> name, createdAt |-> created,
                       absent |-> shape, title |-> title, isDraft |-> flag])
          /\ authorLogin' = login
          /\ occurred' = Occurs(login)
          /\ authorNames' = StoreName(authorNames, login, name)
          /\ nameLog' = LogName(nameLog, "author", login, name, login)
          /\ createdAt' = created
          /\ daysOpen' = DaysOpen(clock, created)
          /\ absent' = shape
          /\ prTitle' = title
          /\ jiraLinks' = JiraLinks(extractJiraIds(title))
          /\ isDraft' = IsDraft(flag)
    /\ prNumber' = Len(processed) + 1
    /\ requestedReviewers' = <<>>
    /\ reviewerStatus' = <<>>
    /\ selfReviewed' = FALSE
    /\ nodesRead' = nodesRead + 1
    /\ pc' = "requests"
    /\ UNCHANGED <<reviewerNames, run, earlier>>
    /\ UNCHANGED <<quota, error, report, totalOpenPRs, clock, lastUpdatedUTC, reviewers,
                   authors, readyToMergePRs, requestLog, reviewLog, processed>>

\* the reviewRequests.nodes.map callback, followed by filter(Boolean):
\* a node without reviewer or without login adds nothing
RequestNode ==
    /\ pc = "requests"
    /\ ~absent.reviewRequests
    /\ nodesRead < quota.nodes
    /\ \E login \in Usable \cup {NoLogin, NoReviewer}, name \in quota.names :
          /\ login = NoReviewer => name = NoName
          /\ ReadNode([kind |-> "request", login |-> login, name |-> name])
          /\ requestedReviewers' = ExtractRequest(requestedReviewers, login)
          /\ occurred' = Occurs(login)
          /\ reviewerNames' = StoreName(reviewerNames, login, name)
          /\ nameLog' = LogName(nameLog, "requested", login, name, authorLogin)
    /\ nodesRead' = nodesRead + 1
    /\ UNCHANGED <<prTitle, isDraft, jiraLinks, authorNames, run, earlier>>
    /\ UNCHANGED <<quota, pc, error, report, totalOpenPRs, clock, lastUpdatedUTC, prNumber,
                   authorLogin, createdAt, daysOpen, absent, reviewerStatus, reviewers,
                   authors, readyToMergePRs, selfReviewed, requestLog, reviewLog, processed>>

\* the reviews.nodes.forEach callback
ReviewNode ==
    /\ pc \in {"requests", "reviews"}
    /\ ~absent.reviews
    /\ nodesRead < quota.nodes
    /\ \E login \in Usable \cup {NoLogin}, state \in quota.states, name \in quota.names :
          /\ ReadNode([kind |-> "review", login |-> login, state |-> state, name |-> name])
          /\ reviewerStatus' =
                FoldReview(reviewerStatus, [login |-> login, state |-> state], authorLogin)
          /\ selfReviewed' = (selfReviewed \/ (login # NoLogin /\ login = authorLogin))
          /\ occurred' = Occurs(login)
          /\ reviewerNames' = IF login = NoLogin \/ login = authorLogin
                               THEN reviewerNames
                               ELSE StoreName(reviewerNames, login, name)
          /\ nameLog' = LogName(nameLog, "review", login, name, authorLogin)
    /\ nodesRead' = nodesRead + 1
    /\ pc' = "reviews"
    /\ UNCHANGED <<prTitle, isDraft, jiraLinks, authorNames, run, earlier>>
    /\ UNCHANGED <<quota, error, report, totalOpenPRs, clock, lastUpdatedUTC, prNumber,
                   authorLogin, createdAt, daysOpen, absent, requestedReviewers, reviewers,
                   authors, readyToMergePRs, requestLog, reviewLog, processed>>

\* the rest of the pull request callback: classification, ready-to-merge list,
\* reviewer aggregates, author aggregate
FinishPR ==
    /\ pc \in {"requests", "reviews"}
    /\ ReadNode([kind |-> "end"])
    /\ readyToMergePRs' = TrackReady(readyToMergePRs, prNumber, authorLogin, reviewerStatus,
                                      daysOpen, prTitle, isDraft, jiraLinks)
    /\ reviewers' = TrackReviewers(reviewers, prNumber, authorLogin, requestedReviewers,
                                    reviewerStatus,
                                    AllReviewers(requestedReviewers, reviewerStatus),
                                    daysOpen, prTitle, isDraft, jiraLinks)
    /\ authors' = TrackAuthor(authors, prNumber, authorLogin, requestedReviewers,
                               reviewerStatus, daysOpen, prTitle, isDraft, jiraLinks)
    /\ processed' = Append(processed,
                            [number |-> prNumber,
                             authorLogin |-> authorLogin,
                             createdAt |-> createdAt,
                             readAt |-> clock,
                             absent |-> absent,
                             nodesRead |-> nodesRead,
                             requested |-> requestedReviewers,
                             resolved |-> reviewerStatus,
                             selfReviewed |-> selfReviewed,
                             isDraft |-> isDraft])
    /\ pc' = "idle"
    /\ UNCHANGED <<prTitle, isDraft, jiraLinks, reviewerNames, authorNames, nameLog, run,
                   earlier>>
    /\ UNCHANGED <<quota, error, report, totalOpenPRs, clock, lastUpdatedUTC, prNumber,
                   authorLogin, createdAt, daysOpen, absent, requestedReviewers,
                   reviewerStatus, nodesRead, selfReviewed, requestLog, reviewLog, occurred>>

\* GenerateReport without waiting for the end of the loop
GenerateReportEarly ==
    /\ pc = "idle"
    /\ readyToMergePRs' = SortByDaysOpen(readyToMergePRs)
    /\ \/ /\ report' = <<Rendered(reviewers, authors, readyToMergePRs, totalOpenPRs,
                                  lastUpdatedUTC)>>
          /\ pc' = "written"
          /\ UNCHANGED error
       \/ /\ error' = "write"
          /\ pc' = "aborted"
          /\ UNCHANGED report
    /\ UNCHANGED <<prTitle, isDraft, jiraLinks, reviewerNames, authorNames, nameLog, run,
                   snapshot, cursor, earlier>>
    /\ UNCHANGED <<quota, totalOpenPRs, clock, lastUpdatedUTC, prNumber, authorLogin,
                   createdAt, daysOpen, absent, requestedReviewers, reviewerStatus, reviewers,
                   authors, nodesRead, selfReviewed, requestLog, reviewLog, processed,
                   occurred>>

\* the loop over the pull requests is over: generateHtmlReport renders sorted
\* copies of the prDetails, sorts readyToMergePRs in place and writes
\* webpage/index.html; mkdirSync or writeFileSync can throw, which ends the
\* run without the file
GenerateReport ==
    /\ pc = "idle"
    /\ Len(processed) = totalOpenPRs
    /\ readyToMergePRs' = SortByDaysOpen(readyToMergePRs)
    /\ \/ /\ report' = <<Rendered(reviewers, authors, readyToMergePRs, totalOpenPRs,
                                  lastUpdatedUTC)>>
          /\ pc' = "written"
          /\ UNCHANGED error
       \/ /\ error' = "write"
          /\ pc' = "aborted"
          /\ UNCHANGED report
    /\ UNCHANGED <<prTitle, isDraft, jiraLinks, reviewerNames, authorNames, nameLog, run,
                   snapshot, cursor, earlier>>
    /\ UNCHANGED <<quota, totalOpenPRs, clock, lastUpdatedUTC, prNumber, authorLogin,
                   createdAt, daysOpen, absent, requestedReviewers, reviewerStatus, reviewers,
                   authors, nodesRead, selfReviewed, requestLog, reviewLog, processed,
                   occurred>>

Next == Load \/ MalformedPR \/ StartPR \/ RequestNode \/ ReviewNode \/ FinishPR
            \/ GenerateReport

Spec == Init /\ [][Next]_vars

\* ------------------------------------------------ a snapshot of one pull request
InitOnePR ==
    InitRun([pullRequests |-> 1, nodes |-> MaxPRNodes, logins |-> Len(LoginOrder),
             states |-> ReviewStates, createdAts |-> {0}, ticks |-> 0,
             absent |-> {AllPresent},
             words |-> 0, drafts |-> {"false"}, names |-> {NoName}, runs |-> 1])

SpecOnePR == InitOnePR /\ [][Next]_vars

\* ------------------------------------- snapshots with absent collections
\* pull requests whose reviewRequests, reviews or both are absent, next to
\* complete ones
InitDegraded ==
    InitRun([pullRequests |-> 2, nodes |-> MaxNodes, logins |-> Len(LoginOrder),
             states |-> ReviewStates, createdAts |-> {0}, ticks |-> 0, absent |-> Shapes,
             words |-> 0, drafts |-> {"false"}, names |-> {NoName}, runs |-> 1])

SpecDegraded == InitDegraded /\ [][Next]_vars

\* --------------------------------------------- snapshots with creation times
\* Two pull requests created at different times, at most three logins, no
\* review requests, approving reviews only: both can be ready to merge.
CreatedAts == {0 - 2, 0}

InitAge ==
    InitRun([pullRequests |-> 2, nodes |-> MaxAgeNodes, logins |-> 3,
             states |-> {"APPROVED"}, createdAts |-> CreatedAts, ticks |-> 0,
             absent |-> {AllPresent},
             words |-> 0, drafts |-> {"false"}, names |-> {NoName}, runs |-> 1])

NextAge == Load \/ StartPR \/ ReviewNode \/ FinishPR \/ GenerateReport

SpecAge == InitAge /\ [][NextAge]_vars

\* ------------------------------- one pull request with any review state
\* the reviews of the pull request may carry a state outside the known five
InitAnnotate ==
    InitRun([pullRequests |-> 1, nodes |-> MaxPRNodes, logins |-> Len(LoginOrder),
             states |-> FoldStates, createdAts |-> {0}, ticks |-> 0,
             absent |-> {AllPresent},
             words |-> 0, drafts |-> {"false"}, names |-> {NoName}, runs |-> 1])

SpecAnnotate == InitAnnotate /\ [][Next]_vars

\* ----------------------------------------------- one pull request of any age
\* a pull request created up to MaxAge days before the run, or up to a day
\* after its start (the clock of the host that made the snapshot is ahead)
InitTier ==
    InitRun([pullRequests |-> 1, nodes |-> 2, logins |-> Len(LoginOrder),
             states |-> ReviewStates, createdAts |-> (0 - (MaxAge * Day + 1))..Day,
             ticks |-> 0, absent |-> {AllPresent},
             words |-> 0, drafts |-> {"false"}, names |-> {NoName}, runs |-> 1])

SpecTier == InitTier /\ [][Next]_vars

\* ------------------------------------------- snapshots read while time passes
\* the wall clock advances by one tick between two pull requests
Tick ==
    /\ pc = "idle"
    /\ clock < quota.ticks
    /\ clock' = clock + 1
    /\ UNCHANGED <<prTitle, isDraft, jiraLinks, reviewerNames, authorNames, nameLog, run,
                   snapshot, cursor, earlier>>
    /\ UNCHANGED <<quota, pc, error, report, totalOpenPRs, lastUpdatedUTC, prNumber,
                   authorLogin, createdAt, daysOpen, absent, requestedReviewers,
                   reviewerStatus, reviewers, authors, readyToMergePRs, nodesRead,
                   selfReviewed, requestLog, reviewLog, processed, occurred>>

InitClock ==
    InitRun([pullRequests |-> 2, nodes |-> MaxClockNodes, logins |-> Len(LoginOrder),
             states |-> ReviewStates, createdAts |-> {0 - 1, 0}, ticks |-> 1,
             absent |-> {AllPresent},
             words |-> 0, drafts |-> {"false"}, names |-> {NoName}, runs |-> 1])

NextClock == Next \/ Tick

SpecClock == InitClock /\ [][NextClock]_vars

\* ----------------------------------------------- the fold of one pull request
\* The reviews of a single pull request are folded node by node and the nodes
\* read are kept in reviewLog.
InitResolve ==
    /\ quota = [pullRequests |-> 1, nodes |-> MaxLog + 1, logins |-> Len(LoginOrder),
                states |-> FoldStates, createdAts |-> {0}, ticks |-> 0,
                absent |-> {AllPresent},
                words |-> 0, drafts |-> {"false"}, names |-> {NoName}, runs |-> 1]
    /\ pc = "reviews"
    /\ error = NoError
    /\ report = <<>>
    /\ totalOpenPRs = 1
    /\ clock = 0
    /\ lastUpdatedUTC = 0
    /\ prNumber = 1
    /\ authorLogin \in FoldAuthors
    /\ createdAt = 0
    /\ daysOpen = 0
    /\ absent = AllPresent
    /\ requestedReviewers = <<>>
    /\ reviewerStatus = <<>>
    /\ reviewers = <<>>
    /\ authors = <<>>
    /\ readyToMergePRs = <<>>
    /\ nodesRead = 1
    /\ selfReviewed = FALSE
    /\ requestLog = <<>>
    /\ reviewLog = <<>>
    /\ processed = <<>>
    /\ occurred = 0
    /\ prTitle = NoTitle
    /\ isDraft = FALSE
    /\ jiraLinks = <<>>
    /\ reviewerNames = <<>>
    /\ authorNames = <<>>
    /\ nameLog = <<>>
    /\ run = 1
    /\ snapshot = <<>>
    /\ cursor = 0
    /\ earlier = <<>>

\* the reviews.nodes.forEach callback, the node being recorded
LogReviewNode ==
    /\ pc = "reviews"
    /\ Len(reviewLog) < MaxLog
    /\ \E login \in FoldLogins \cup {NoLogin}, state \in quota.states :
          /\ reviewerStatus' =
                FoldReview(reviewerStatus, [login |-> login, state |-> state], authorLogin)
          /\ selfReviewed' = (selfReviewed \/ (login # NoLogin /\ login = authorLogin))
          /\ reviewLog' = Append(reviewLog, [login |-> login, state |-> state])
    /\ nodesRead' = nodesRead + 1
    /\ UNCHANGED <<prTitle, isDraft, jiraLinks, reviewerNames, authorNames, nameLog, run,
                   snapshot, cursor, earlier>>
    /\ UNCHANGED <<quota, pc, error, report, totalOpenPRs, clock, lastUpdatedUTC, prNumber,
                   authorLogin, createdAt, daysOpen, absent, requestedReviewers, reviewers,
                   authors, readyToMergePRs, requestLog, processed, occurred>>

NextResolve == LogReviewNode

SpecResolve == InitResolve /\ [][NextResolve]_vars

\* ------------------------------------ the review requests of one pull request
\* The reviewRequests nodes of a single pull request are read node by node and
\* the nodes read are kept in requestLog.
InitExtract ==
    /\ quota = [pullRequests |-> 1, nodes |-> MaxRequests + 1, logins |-> Len(LoginOrder),
                states |-> ReviewStates, createdAts |-> {0}, ticks |-> 0,
                absent |-> {AllPresent},
                words |-> 0, drafts |-> {"false"}, names |-> {NoName}, runs |-> 1]
    /\ pc = "requests"
    /\ error = NoError
    /\ report = <<>>
    /\ totalOpenPRs = 1
    /\ clock = 0
    /\ lastUpdatedUTC = 0
    /\ prNumber = 1
    /\ authorLogin \in FoldAuthors
    /\ createdAt = 0
    /\ daysOpen = 0
    /\ absent = AllPresent
    /\ requestedReviewers = <<>>
    /\ reviewerStatus = <<>>
    /\ reviewers = <<>>
    /\ authors = <<>>
    /\ readyToMergePRs = <<>>
    /\ nodesRead = 1
    /\ selfReviewed = FALSE
    /\ requestLog = <<>>
    /\ reviewLog = <<>>
    /\ processed = <<>>
    /\ occurred = 0
    /\ prTitle = NoTitle
    /\ isDraft = FALSE
    /\ jiraLinks = <<>>
    /\ reviewerNames = <<>>
    /\ authorNames = <<>>
    /\ nameLog = <<>>
    /\ run = 1
    /\ snapshot = <<>>
    /\ cursor = 0
    /\ earlier = <<>>

\* the reviewRequests.nodes.map callback and filter(Boolean), the node being
\* recorded
LogRequestNode ==
    /\ pc = "requests"
    /\ Len(requestLog) < MaxRequests
    /\ \E login \in FoldLogins \cup {NoLogin, NoReviewer} :
          /\ requestedReviewers' = ExtractRequest(requestedReviewers, login)
          /\ requestLog' = Append(requestLog, login)
    /\ nodesRead' = nodesRead + 1
    /\ UNCHANGED <<prTitle, isDraft, jiraLinks, reviewerNames, authorNames, nameLog, run,
                   snapshot, cursor, earlier>>
    /\ UNCHANGED <<quota, pc, error, report, totalOpenPRs, clock, lastUpdatedUTC, prNumber,
                   authorLogin, createdAt, daysOpen, absent, reviewerStatus, reviewers,
                   authors, readyToMergePRs, selfReviewed, reviewLog, processed, occurred>>

NextExtract == LogRequestNode

SpecExtract == InitExtract /\ [][NextExtract]_vars

\* ------------------------------------------------ snapshots with titles
InitJira ==
    InitRun([pullRequests |-> 1, nodes |-> 2, logins |-> 1,
             states |-> {"APPROVED"}, createdAts |-> {0}, ticks |-> 0,
             absent |-> {AllPresent},
             words |-> MaxWords, drafts |-> {"false"}, names |-> {NoName}, runs |-> 1])

SpecJira == InitJira /\ [][Next]_vars

\* ------------------------------------------------ snapshots with names
InitNames ==
    InitRun([pullRequests |-> 2, nodes |-> MaxNameNodes, logins |-> 2,
             states |-> {"APPROVED"}, createdAts |-> {0}, ticks |-> 0,
             absent |-> {AllPresent},
             words |-> 0, drafts |-> {"false"}, names |-> Names \cup {NoName},
             runs |-> 1])

SpecNames == InitNames /\ [][Next]_vars

\* ------------------------------------------------ two runs on one snapshot
\* Rerun with the maps and lists of the first run kept
RerunKeepsState ==
    /\ pc = "written"
    /\ run < quota.runs
    /\ earlier' = <<[reviewers |-> reviewers, authors |-> authors,
                     readyToMergePRs |-> readyToMergePRs, reviewerNames |-> reviewerNames,
                     authorNames |-> authorNames, totalOpenPRs |-> totalOpenPRs,
                     processed |-> processed]>>
    /\ run' = run + 1
    /\ cursor' = 0
    /\ \E now \in clock..quota.ticks : clock' = now
    /\ pc' = "load"
    /\ processed' = <<>>
    /\ nameLog' = <<>>
    /\ nodesRead' = 0
    /\ occurred' = 0
    /\ UNCHANGED <<quota, snapshot, report, error, reviewers, authors, readyToMergePRs,
                   reviewerNames, authorNames, totalOpenPRs, lastUpdatedUTC, prNumber,
                   authorLogin, createdAt, daysOpen, absent, prTitle, isDraft, jiraLinks,
                   requestedReviewers, reviewerStatus, selfReviewed, requestLog, reviewLog>>

\* The script is run once more on the same file, at the same time or later:
\* a new process, in which processData declares its maps, lists and counters
\* anew (lines 41-69); what the first run produced is kept for comparison.
Rerun ==
    /\ pc = "written"
    /\ run < quota.runs
    /\ earlier' = <<[reviewers |-> reviewers, authors |-> authors,
                     readyToMergePRs |-> readyToMergePRs, reviewerNames |-> reviewerNames,
                     authorNames |-> authorNames, totalOpenPRs |-> totalOpenPRs,
                     processed |-> processed]>>
    /\ run' = run + 1
    /\ cursor' = 0
    /\ \E now \in clock..quota.ticks : clock' = now
    /\ pc' = "load"
    /\ reviewers' = <<>>
    /\ authors' = <<>>
    /\ readyToMergePRs' = <<>>
    /\ reviewerNames' = <<>>
    /\ authorNames' = <<>>
    /\ totalOpenPRs' = 0
    /\ lastUpdatedUTC' = 0
    /\ prNumber' = 0
    /\ authorLogin' = NoLogin
    /\ createdAt' = 0
    /\ daysOpen' = 0
    /\ absent' = AllPresent
    /\ prTitle' = NoTitle
    /\ isDraft' = FALSE
    /\ jiraLinks' = <<>>
    /\ requestedReviewers' = <<>>
    /\ reviewerStatus' = <<>>
    /\ selfReviewed' = FALSE
    /\ processed' = <<>>
    /\ nameLog' = <<>>
    /\ nodesRead' = 0
    /\ occurred' = 0
    /\ UNCHANGED <<quota, snapshot, report, error, requestLog, reviewLog>>

InitRuns ==
    InitRun([pullRequests |-> 2, nodes |-> MaxRunNodes, logins |-> 2,
             states |-> {"APPROVED"}, createdAts |-> {0 - 1, 0}, ticks |-> 1,
             absent |-> {AllPresent},
             words |-> 0, drafts |-> {"false"}, names |-> {NoName, "Ann"},
             runs |-> 2])

NextRuns == Next \/ Rerun

SpecRuns == InitRuns /\ [][NextRuns]_vars

\* ------------------------------------------------ snapshots with drafts
InitDraft ==
    InitRun([pullRequests |-> 2, nodes |-> MaxDraftNodes, logins |-> 4,
             states |-> {"APPROVED", "COMMENTED"}, createdAts |-> {0}, ticks |-> 0,
             absent |-> {AllPresent},
             words |-> 0, drafts |-> DraftFlags, names |-> {NoName}, runs |-> 1])

SpecDraft == InitDraft /\ [][Next]_vars

\* --------------------------------------------------------------- properties
\* the review nodes of the log that count for a reviewer: those carrying the
\* reviewer's login, unless the reviewer is the author of the pull request
SubmissionsOf(log, reviewer) ==
    {i \in 1..Len(log) : log[i].login = reviewer}

Submitters(log, author) ==
    {log[i].login : i \in 1..Len(log)} \ {NoLogin, author}

\* CHANGES_REQUESTED > APPROVED > COMMENTED > DISMISSED > PENDING
StrictRank(state) ==
    CASE state = "CHANGES_REQUESTED" -> 5
      [] state = "APPROVED" -> 4
      [] state = "COMMENTED" -> 3
      [] state = "DISMISSED" -> 2
      [] state = "PENDING" -> 1
      [] OTHER -> 0

\* CHANGES_REQUESTED > APPROVED > COMMENTED > (DISMISSED or other)
Rank(state) ==
    CASE state = "CHANGES_REQUESTED" -> 3
      [] state = "APPROVED" -> 2
      [] state = "COMMENTED" -> 1
      [] OTHER -> 0

KnownStatesOnly(log) == \A i \in 1..Len(log) : log[i].state \in ReviewStates

\* C4: while the reviews of a pull request are folded, a review of lower
\* precedence (CHANGES_REQUESTED > APPROVED > COMMENTED > DISMISSED or other)
\* than the reviewer's resolved state leaves that resolved state unchanged.
C4_NoDowngrade ==
    [][reviewLog' # reviewLog =>
         LET review == reviewLog'[Len(reviewLog')]
             current == StateOf(reviewerStatus, review.login)
         IN  (current # NoState /\ Rank(review.state) < Rank(current))
                 => StateOf(reviewerStatus', review.login) = current]_vars

\* C4 witness: COMMENTED, APPROVED, COMMENTED of one reviewer has been folded
\* and the reviewer is resolved to APPROVED.
C4_Witness ==
    /\ reviewLog = <<[login |-> "bob", state |-> "COMMENTED"],
                     [login |-> "bob", state |-> "APPROVED"],
                     [login |-> "bob", state |-> "COMMENTED"]>>
    /\ StateOf(reviewerStatus, "bob") = "APPROVED"

\* C5 (as claimed): every reviewer with a submission has exactly one resolved
\* state, the highest of the reviewer's submissions under the strict order
\* CHANGES_REQUESTED > APPROVED > COMMENTED > DISMISSED > PENDING.
C5_StrictOrderMaximum ==
    KnownStatesOnly(reviewLog) =>
        \A r \in Submitters(reviewLog, authorLogin) :
            /\ Cardinality({i \in 1..Len(reviewerStatus) : reviewerStatus[i].key = r}) = 1
            /\ \E i \in SubmissionsOf(reviewLog, r) :
                   reviewLog[i].state = StateOf(reviewerStatus, r)
            /\ \A i \in SubmissionsOf(reviewLog, r) :
                   StrictRank(reviewLog[i].state) <= StrictRank(StateOf(reviewerStatus, r))

\* the reorderings of a sequence
Reorderings(s) ==
    {[i \in 1..Len(s) |-> s[f[i]]] :
        f \in {g \in [1..Len(s) -> 1..Len(s)] :
                  \A i, j \in 1..Len(s) : g[i] = g[j] => i = j}}

\* C6 (as claimed): folding the reviews of a pull request in any other order
\* gives every reviewer the same resolved state and the pull request the same
\* approval count.
C6_OrderIndependent ==
    KnownStatesOnly(reviewLog) =>
        \A other \in Reorderings(reviewLog) :
            LET resolved == ResolveReviews(<<>>, other, authorLogin)
            IN  /\ ApprovalCount(resolved) = ApprovalCount(reviewerStatus)
                /\ \A r \in FoldLogins :
                       StateOf(resolved, r) = StateOf(reviewerStatus, r)

\* ---------------------------------------------- properties of the whole pass
\* the logins a processed pull request concerns as reviewers
RequestedOf(p) == {p.requested[i] : i \in 1..Len(p.requested)}

Involved(p) == RequestedOf(p) \cup Keys(p.resolved)

Approvers(p) == {r \in Keys(p.resolved) : StateOf(p.resolved, r) = "APPROVED"}

HasChangesRequested(p) ==
    \E r \in Keys(p.resolved) : StateOf(p.resolved, r) = "CHANGES_REQUESTED"

ExpectedStatus(p) ==
    IF Cardinality(Approvers(p)) >= REQUIRED_APPROVALS
    THEN "ready_to_merge"
    ELSE IF HasChangesRequested(p) THEN "changes_requested" ELSE "needs_review"

ExpectedPending(p, r) ==
    \/ r \in RequestedOf(p) /\ r \notin Keys(p.resolved)
    \/ StateOf(p.resolved, r) \in {"COMMENTED", "CHANGES_REQUESTED", "PENDING"}

\* the summaries of pull request number in the prDetails of key k of the map m
SummariesOf(m, k, number) ==
    IF HasKey(m, k)
    THEN LET details == m[IndexOf(m, k)].prDetails
         IN  {details[i] : i \in {j \in 1..Len(details) : details[j].number = number}}
    ELSE {}

\* the number of summaries of pull request number in the prDetails of key k
CountOf(m, k, number) ==
    IF HasKey(m, k)
    THEN LET details == m[IndexOf(m, k)].prDetails
         IN  Cardinality({j \in 1..Len(details) : details[j].number = number})
    ELSE 0

ProcessedPRs == {processed[i] : i \in 1..Len(processed)}

\* C1: every processed pull request is ready_to_merge if at least
\* REQUIRED_APPROVALS reviewers are resolved to APPROVED, whatever the other
\* resolved states; otherwise changes_requested if a resolved state is
\* CHANGES_REQUESTED; otherwise needs_review.
C1_StatusRule ==
    \A p \in ProcessedPRs :
        /\ SummariesOf(authors, PrAuthor(p.authorLogin), p.number) # {}
        /\ \A e \in SummariesOf(authors, PrAuthor(p.authorLogin), p.number) :
               /\ e.status = ExpectedStatus(p)
               /\ e.approvals = Cardinality(Approvers(p))
        /\ \A r \in Involved(p) :
               \A e \in SummariesOf(reviewers, r, p.number) :
                   /\ e.status = ExpectedStatus(p)
                   /\ e.approvals = Cardinality(Approvers(p))

\* C1 witness: a pull request with three approvals and requested changes of a
\* fourth reviewer has been classified ready_to_merge.
C1_Witness ==
    \E p \in ProcessedPRs :
        /\ Cardinality(Approvers(p)) >= REQUIRED_APPROVALS
        /\ HasChangesRequested(p)
        /\ \E e \in SummariesOf(authors, PrAuthor(p.authorLogin), p.number) :
               e.status = "ready_to_merge"

\* C2: for every processed pull request and every login among its requested
\* or resolved reviewers, isPending is true iff the login is requested and
\* unresolved, or resolved to COMMENTED, CHANGES_REQUESTED or PENDING,
\* whatever the status of the pull request.
C2_PendingRule ==
    \A p \in ProcessedPRs :
        \A r \in Involved(p) :
            /\ SummariesOf(reviewers, r, p.number) # {}
            /\ \A e \in SummariesOf(reviewers, r, p.number) :
                   e.isPending = ExpectedPending(p, r)

\* C2 witness: a requested reviewer without review of a ready_to_merge pull
\* request is pending.
C2_Witness ==
    \E p \in ProcessedPRs :
        /\ ExpectedStatus(p) = "ready_to_merge"
        /\ \E r \in RequestedOf(p) \ Keys(p.resolved) :
               \E e \in SummariesOf(reviewers, r, p.number) :
                   e.isPending /\ e.status = "ready_to_merge"

C7_SelfReviewsIgnored ==
    /\ authorLogin # NoLogin => ~HasKey(reviewerStatus, authorLogin)
    /\ \A p \in ProcessedPRs :
           p.authorLogin # NoLogin =>
               /\ p.authorLogin \notin Keys(p.resolved)
               /\ \A e \in SummariesOf(authors, p.authorLogin, p.number) :
                      /\ e.approvals = Cardinality(Approvers(p) \ {p.authorLogin})
                      /\ \A i \in 1..Len(e.reviewers) :
                             e.reviewers[i].login = p.authorLogin
                                 => /\ e.reviewers[i].label = "requested"
                                    /\ p.authorLogin \in RequestedOf(p)
               /\ p.authorLogin \notin RequestedOf(p)
                      => SummariesOf(reviewers, p.authorLogin, p.number) = {}

\* C7 witness: a pull request whose author reviewed it, next to another
\* reviewer, has been processed, and its author has a reviewer aggregate.
C7_Witness ==
    \E p \in ProcessedPRs :
        /\ p.selfReviewed
        /\ p.authorLogin # NoLogin
        /\ p.resolved # <<>>
        /\ HasKey(reviewers, p.authorLogin)

\* C8: the ready-to-merge list holds exactly one entry for each processed pull
\* request with at least REQUIRED_APPROVALS approvals and none for any other;
\* approvedBy lists the reviewers resolved to APPROVED in the order of the
\* resolved-state map, and approvals is their number.
C8_ReadyList ==
    /\ \A p \in ProcessedPRs :
           Cardinality({i \in 1..Len(readyToMergePRs) :
                          readyToMergePRs[i].number = p.number})
               = IF Cardinality(Approvers(p)) >= REQUIRED_APPROVALS THEN 1 ELSE 0
    /\ \A i \in 1..Len(readyToMergePRs) :
           \E p \in ProcessedPRs :
               LET e == readyToMergePRs[i]
                   IsApprover(entry) == entry.key \in Approvers(p)
                   approved == SelectSeq(p.resolved, IsApprover)
               IN  /\ e.number = p.number
                   /\ e.approvedBy = [j \in 1..Len(approved) |-> approved[j].key]
                   /\ e.approvals = Cardinality(Approvers(p))
                   /\ e.approvals = Len(e.approvedBy)

\* C8 witness: the list holds a pull request approved by bob and alice, in that
\* order, and another reviewer.
C8_Witness ==
    \E i \in 1..Len(readyToMergePRs) :
        /\ Len(readyToMergePRs[i].approvedBy) = REQUIRED_APPROVALS
        /\ readyToMergePRs[i].approvedBy[1] = "bob"
        /\ readyToMergePRs[i].approvedBy[2] = "alice"

C10_AuthorCount ==
    /\ \A k \in 1..Len(authors) :
           /\ authors[k].count =
                 Cardinality({i \in 1..Len(processed) :
                                PrAuthor(processed[i].authorLogin) = authors[k].key})
           /\ authors[k].count = Len(authors[k].prDetails)
    /\ \A p \in ProcessedPRs :
           CountOf(authors, PrAuthor(p.authorLogin), p.number) = 1

\* C10 witness: two pull requests of one author and one of another have been
\* processed.
C10_Witness ==
    /\ Len(authors) = 2
    /\ \E k \in 1..Len(authors) : authors[k].count = 2

\* ------------------------------------------------------ outcome of the run
\* the pull requests of the written report: the numbers in the authors' prDetails
ReportedPRs ==
    IF report = <<>>
    THEN {}
    ELSE UNION {{report[1].authors[k].prDetails[i].number :
                     i \in 1..Len(report[1].authors[k].prDetails)} :
                k \in 1..Len(report[1].authors)}

\* C11: a report is written only by a run without error, after every pull
\* request of the snapshot has been aggregated, and it covers all of them; a
\* run that ended with an error has written no report; a snapshot that could
\* not be read or parsed or has no pull request collection ends the run
\* before any pull request is aggregated.
C11_RunOutcome ==
    /\ report # <<>> =>
           /\ pc = "written"
           /\ error = NoError
           /\ Len(processed) = totalOpenPRs
           /\ report[1].totalOpenPRs = totalOpenPRs
           /\ ReportedPRs = 1..totalOpenPRs
    /\ pc = "written" => report # <<>>
    /\ (pc = "aborted") = (error # NoError)
    /\ pc = "aborted" => report = <<>>
    /\ error \in LoadErrors =>
           /\ processed = <<>>
           /\ prNumber = 0
           /\ reviewers = <<>> /\ authors = <<>> /\ readyToMergePRs = <<>>

\* C11 witness: the run ended with an error after one pull request of a
\* snapshot of several had been aggregated, and no report is written.
C11_Witness ==
    /\ pc = "aborted"
    /\ error = "TypeError"
    /\ Len(processed) >= 1
    /\ Len(processed) < totalOpenPRs
    /\ authors # <<>>
    /\ report = <<>>

\* ------------------------------------------------- missing-field degradations
\* the reviewRequests and reviews nodes read for the i-th processed pull request
NodesOf(i) ==
    processed[i].nodesRead - (IF i = 1 THEN 0 ELSE processed[i - 1].nodesRead) - 1

AllLogins(seq) == \A i \in 1..Len(seq) : seq[i] \in Logins

\* what holds of the pull requests processed so far, whatever they lack
MissingFieldsHandled ==
    /\ pc = "aborted" => error \in LoadErrors \cup {"TypeError", "write"}
    /\ error = "TypeError" => pc = "aborted" /\ Len(processed) < totalOpenPRs
    /\ \A i \in 1..Len(processed) :
           LET p == processed[i]
           IN  /\ p.authorLogin = NoLogin
                      => CountOf(authors, "Unknown", p.number) = 1
               /\ p.authorLogin # NoLogin
                      => CountOf(authors, p.authorLogin, p.number) = 1
               /\ p.absent.reviewRequests => p.requested = <<>>
               /\ p.absent.reviews => p.resolved = <<>>
               /\ (p.absent.reviewRequests /\ p.absent.reviews) => NodesOf(i) = 0
               /\ AllLogins(p.requested)
               /\ Keys(p.resolved) \subseteq Logins
               /\ Len(p.requested) + Len(p.resolved) <= NodesOf(i)
    /\ Keys(reviewers) \subseteq Logins
    /\ Keys(authors) \subseteq Logins \cup {"Unknown"}

\* C12: no step of the callback of a pull request ends the run, whatever the
\* pull request lacks: once entered, the callback goes on to its end.  A
\* processed pull request without author is counted under 'Unknown'; an
\* absent reviewRequests or reviews collection gives an empty requested list
\* or no resolved state; nodes without identity add no requested reviewer,
\* no resolved state and no reviewer aggregate; every processed pull request,
\* whatever it and the ones before it lack, has its author summary.
C12_MissingFields ==
    /\ []MissingFieldsHandled
    /\ [][(pc \in {"requests", "reviews"}) => (pc' \in {"requests", "reviews", "idle"})]_vars

\* C12 witness: a pull request without author, reviewRequests and reviews has
\* been processed, and after it a pull request whose two nodes carry no
\* identity; both are counted under 'Unknown'.
C12_Witness ==
    /\ Len(processed) = 2
    /\ processed[1].authorLogin = NoLogin
    /\ processed[1].absent.reviewRequests /\ processed[1].absent.reviews
    /\ processed[2].authorLogin = NoLogin
    /\ NodesOf(2) = 2
    /\ processed[2].requested = <<>> /\ processed[2].resolved = <<>>
    /\ \E k \in 1..Len(authors) : authors[k].key = "Unknown" /\ authors[k].count = 2
    /\ reviewers = <<>>

\* ------------------------------------------------ unrecognised review states
\* C13 (as claimed): a reviewer with a submission in a state outside the five
\* known ones and a submission in a known state is resolved to a known state,
\* whichever of the two comes first.
C13_RecognizedWins ==
    \A r \in Submitters(reviewLog, authorLogin) :
        (/\ \E i \in SubmissionsOf(reviewLog, r) : reviewLog[i].state \notin ReviewStates
         /\ \E i \in SubmissionsOf(reviewLog, r) : reviewLog[i].state \in ReviewStates)
            => StateOf(reviewerStatus, r) \in ReviewStates

\* ------------------------------------------------- monotonicity in approvals
\* the resolved states with those of the reviewers in S changed to APPROVED
SetApproved(status, S) ==
    [i \in 1..Len(status) |->
        IF status[i].key \in S
        THEN [key |-> status[i].key, state |-> "APPROVED"]
        ELSE status[i]]

\* the resolved states with, for every login in S, one more approving reviewer
RECURSIVE AddApprovers(_, _)
AddApprovers(status, S) ==
    IF S = {}
    THEN status
    ELSE LET r == CHOOSE x \in S : TRUE
         IN  AddApprovers(Append(status, [key |-> r, state |-> "APPROVED"]), S \ {r})

\* C14: for every processed pull request recorded as ready_to_merge, the
\* classifier still gives ready_to_merge when any of its reviewers' resolved
\* states are changed to APPROVED and any further approving reviewers are
\* added, all else unchanged.
C14_MonotonicInApprovals ==
    \A p \in ProcessedPRs :
        \A e \in SummariesOf(authors, PrAuthor(p.authorLogin), p.number) :
            e.status = "ready_to_merge" =>
                \A S \in SUBSET Keys(p.resolved) :
                    \A T \in SUBSET (Logins \ Keys(p.resolved)) :
                        PrStatus(AddApprovers(SetApproved(p.resolved, S), T))
                            = "ready_to_merge"

\* C14 witness: a pull request with three approvals and a reviewer resolved
\* to COMMENTED is recorded as ready_to_merge.
C14_Witness ==
    \E p \in ProcessedPRs :
        /\ \E e \in SummariesOf(authors, PrAuthor(p.authorLogin), p.number) :
               e.status = "ready_to_merge" /\ e.approvals = REQUIRED_APPROVALS
        /\ \E r \in Keys(p.resolved) : StateOf(p.resolved, r) = "COMMENTED"

\* ------------------------------------------------------- order of the output
\* the position in the list of the entry of pull request number
PositionOf(details, number) ==
    CHOOSE i \in 1..Len(details) : details[i].number = number

\* out holds the entries of in, each once
IsReordering(out, in) ==
    /\ Len(out) = Len(in)
    /\ \A i \in 1..Len(in) : Cardinality({j \in 1..Len(out) : out[j] = in[i]}) = 1

\* C15: in the written report every reviewer's prDetails holds the entries
\* accumulated for the reviewer, every pending entry before every
\* non-pending one, and two pending entries, and two non-pending entries, in
\* the order in which they were accumulated.
C15_PendingFirst ==
    report # <<>> =>
        /\ Len(report[1].reviewers) = Len(reviewers)
        /\ \A k \in 1..Len(reviewers) :
               LET in == reviewers[k].prDetails
                   out == report[1].reviewers[k].prDetails
               IN  /\ report[1].reviewers[k].key = reviewers[k].key
                   /\ IsReordering(out, in)
                   /\ \A i, j \in 1..Len(out) :
                          i < j =>
                              /\ ~(~out[i].isPending /\ out[j].isPending)
                              /\ out[i].isPending = out[j].isPending
                                     => PositionOf(in, out[i].number)
                                            < PositionOf(in, out[j].number)

\* C15 witness: the report is written, and a reviewer whose first entry is
\* not pending and whose second entry is pending has them in the other order
\* in the report.
C15_Witness ==
    /\ report # <<>>
    /\ \E k \in 1..Len(reviewers) :
           /\ Len(reviewers[k].prDetails) = 2
           /\ ~reviewers[k].prDetails[1].isPending
           /\ reviewers[k].prDetails[2].isPending
           /\ report[1].reviewers[k].prDetails[1] = reviewers[k].prDetails[2]
           /\ report[1].reviewers[k].prDetails[2] = reviewers[k].prDetails[1]

\* the list is in the order of non-increasing daysOpen
OldestFirst(details) ==
    \A i, j \in 1..Len(details) : i < j => details[i].daysOpen >= details[j].daysOpen

\* the processed pull requests with at least REQUIRED_APPROVALS approvals
ReadyPRs == {p \in ProcessedPRs : Cardinality(Approvers(p)) >= REQUIRED_APPROVALS}

AgesOf(p) ==
    {e.daysOpen : e \in SummariesOf(authors, PrAuthor(p.authorLogin), p.number)}

\* C17 (as claimed): the age of every processed pull request is
\* floor((N - createdAt) / one day) for the one time N taken at the start of
\* the run, whatever time passes during the pass, and two pull requests
\* created at the same time have the same age.
C17_SingleTimeReference ==
    /\ \A p \in ProcessedPRs : AgesOf(p) = {DaysOpen(lastUpdatedUTC, p.createdAt)}
    /\ \A p, q \in ProcessedPRs : p.createdAt = q.createdAt => AgesOf(p) = AgesOf(q)

\* every summary recorded so far: the entries of the authors' and of the
\* reviewers' prDetails and of the ready-to-merge list, as [daysOpen, colour]
SummaryAges ==
    UNION {{[daysOpen |-> authors[k].prDetails[i].daysOpen,
             colour |-> authors[k].prDetails[i].daysOpenColor] :
                i \in 1..Len(authors[k].prDetails)} : k \in 1..Len(authors)}
    \cup UNION {{[daysOpen |-> reviewers[k].prDetails[i].daysOpen,
                  colour |-> reviewers[k].prDetails[i].daysOpenColor] :
                     i \in 1..Len(reviewers[k].prDetails)} : k \in 1..Len(reviewers)}
    \cup {[daysOpen |-> readyToMergePRs[i].daysOpen,
           colour |-> readyToMergePRs[i].daysOpenColor] : i \in 1..Len(readyToMergePRs)}

\* C18: every recorded age has the colour of exactly one tier: red iff the
\* age is above 6, orange iff above 4 and at most 6, yellow iff above 2 and
\* at most 4, the default colour otherwise, negative ages included; 2 is
\* default, 3 and 4 yellow, 5 and 6 orange, 7 red.
C18_AgeTiers ==
    \A e \in SummaryAges :
        /\ e.colour \in {"red", "orange", "yellow", "#d4d4d4"}
        /\ (e.colour = "red") = (e.daysOpen > 6)
        /\ (e.colour = "orange") = (4 < e.daysOpen /\ e.daysOpen <= 6)
        /\ (e.colour = "yellow") = (2 < e.daysOpen /\ e.daysOpen <= 4)
        /\ (e.colour = "#d4d4d4") = (e.daysOpen <= 2)
        /\ e.daysOpen = 2 => e.colour = "#d4d4d4"
        /\ e.daysOpen \in {3, 4} => e.colour = "yellow"
        /\ e.daysOpen \in {5, 6} => e.colour = "orange"
        /\ e.daysOpen = 7 => e.colour = "red"

\* C18 witness: a pull request that is 6 days old is recorded as orange in
\* its author's and in a reviewer's prDetails.
C18_Witness ==
    /\ \E k \in 1..Len(authors) :
           /\ authors[k].prDetails[1].daysOpen = 6
           /\ authors[k].prDetails[1].daysOpenColor = "orange"
    /\ \E k \in 1..Len(reviewers) :
           /\ reviewers[k].prDetails[1].daysOpen = 6
           /\ reviewers[k].prDetails[1].daysOpenColor = "orange"

\* ------------------------------------------------------ requested reviewers
IsLogin(x) == x \in Logins

\* C19 (as claimed): the requested list is the list of the logins of the
\* reviewRequests nodes that carry one, in the order of the nodes, nodes
\* without reviewer or without login dropped, and no login is in it more
\* than once.
C19_DistinctRequested ==
    /\ requestedReviewers = SelectSeq(requestLog, IsLogin)
    /\ \A i, j \in 1..Len(requestedReviewers) :
           requestedReviewers[i] = requestedReviewers[j] => i = j

\* ------------------------------------------------ reviewer-status annotation
\* the label of a resolved state
LabelOf(state) ==
    CASE state = "APPROVED" -> "approved"
      [] state = "CHANGES_REQUESTED" -> "requested changes"
      [] state = "COMMENTED" -> "commented"
      [] state = "DISMISSED" -> "dismissed"
      [] state = "PENDING" -> "pending"
      [] state = "OTHER" -> "other"

\* the annotation the rule gives a processed pull request
ExpectedAnnotation(p) ==
    LET Unresolved(r) == r \notin Keys(p.resolved)
        waiting == SelectSeq(p.requested, Unresolved)
    IN  [i \in 1..Len(waiting) |-> [login |-> waiting[i], label |-> "requested"]]
        \o [i \in 1..Len(p.resolved) |->
               [login |-> p.resolved[i].key, label |-> LabelOf(p.resolved[i].state)]]

C25_ReviewerKeys ==
    Keys(reviewers) = UNION {Involved(p) : p \in ProcessedPRs}

\* C25 witness: a pull request reviewed by its author and by another login
\* has been processed; the other login is a key of the reviewer aggregate,
\* the author is not.
C25_Witness ==
    \E p \in ProcessedPRs :
        /\ p.selfReviewed
        /\ p.authorLogin \in Logins
        /\ p.authorLogin \notin Keys(reviewers)
        /\ Keys(p.resolved) # {}
        /\ Keys(p.resolved) \subseteq Keys(reviewers)

\* ------------------------------------------------ one pull request, one record
ReadyEntriesOf(number) ==
    {readyToMergePRs[i] :
        i \in {j \in 1..Len(readyToMergePRs) : readyToMergePRs[j].number = number}}

ReviewerSummariesOf(number) ==
    UNION {SummariesOf(reviewers, k, number) : k \in Keys(reviewers)}

\* C26: for every processed pull request, the status, approvals, daysOpen and
\* annotation of every reviewer's summary equal those of the author's
\* summary, the approvals and daysOpen of its ready-to-merge entry equal
\* them too, and the entry exists iff the recorded status is ready_to_merge.
C26_SameRecord ==
    \A p \in ProcessedPRs :
        \A a \in SummariesOf(authors, PrAuthor(p.authorLogin), p.number) :
            /\ \A s \in ReviewerSummariesOf(p.number) :
                   /\ s.status = a.status
                   /\ s.approvals = a.approvals
                   /\ s.daysOpen = a.daysOpen
                   /\ s.reviewers = a.reviewers
            /\ \A e \in ReadyEntriesOf(p.number) :
                   /\ e.approvals = a.approvals
                   /\ e.daysOpen = a.daysOpen
            /\ (ReadyEntriesOf(p.number) # {}) <=> (a.status = "ready_to_merge")

\* C26 witness: a processed pull request with the required approvals has an
\* author summary, a summary under each approver and a ready-to-merge entry.
C26_Witness ==
    \E p \in ProcessedPRs :
        /\ ReadyEntriesOf(p.number) # {}
        /\ Cardinality({k \in Keys(reviewers) : SummariesOf(reviewers, k, p.number) # {}})
              >= REQUIRED_APPROVALS
        /\ \E a \in SummariesOf(authors, PrAuthor(p.authorLogin), p.number) :
               a.status = "ready_to_merge"

\* ------------------------------------------------ frame of one pull request
IsPrefix(s, t) == Len(s) <= Len(t) /\ SubSeq(t, 1, Len(s)) = s

\* What the aggregate m holds under key k; nothing when k is no key.
Aggregate(m, k) == IF HasKey(m, k) THEN <<m[IndexOf(m, k)]>> ELSE <<>>

\* The pull request whose nodes have been read gets aggregated in this step.
ProcessesPR == pc \in {"requests", "reviews"} /\ pc' = "idle"

\* C27: the step that aggregates one pull request leaves the aggregate of every
\* reviewer outside the requested-or-resolved set of that pull request and of
\* every author but its own unchanged; for all reviewers and authors the key
\* stays, pending and count do not decrease and the old prDetails are a
\* prefix of the new ones; the ready-to-merge list is kept as a prefix and
\* grows by at most one entry.
C27_Frame ==
    [][ProcessesPR =>
        LET touched == {requestedReviewers[i] : i \in 1..Len(requestedReviewers)}
                           \cup Keys(reviewerStatus)
        IN  /\ \A k \in (Keys(reviewers) \cup Keys(reviewers')) \ touched :
                   Aggregate(reviewers', k) = Aggregate(reviewers, k)
            /\ \A k \in (Keys(authors) \cup Keys(authors')) \ {PrAuthor(authorLogin)} :
                   Aggregate(authors', k) = Aggregate(authors, k)
            /\ \A k \in Keys(reviewers) :
                   /\ HasKey(reviewers', k)
                   /\ reviewers'[IndexOf(reviewers', k)].pending
                          >= reviewers[IndexOf(reviewers, k)].pending
                   /\ IsPrefix(reviewers[IndexOf(reviewers, k)].prDetails,
                               reviewers'[IndexOf(reviewers', k)].prDetails)
            /\ \A k \in Keys(authors) :
                   /\ HasKey(authors', k)
                   /\ authors'[IndexOf(authors', k)].count
                          >= authors[IndexOf(authors, k)].count
                   /\ IsPrefix(authors[IndexOf(authors, k)].prDetails,
                               authors'[IndexOf(authors', k)].prDetails)
            /\ IsPrefix(readyToMergePRs, readyToMergePRs')
            /\ Len(readyToMergePRs') <= Len(readyToMergePRs) + 1]_vars

\* C27 witness: two pull requests of different authors have been aggregated;
\* a reviewer of the first is not involved in the second, which has reviewers
\* of its own, and still holds the summary of the first.
C27_Witness ==
    /\ Len(processed) = 2
    /\ pc = "idle"
    /\ PrAuthor(processed[1].authorLogin) # PrAuthor(processed[2].authorLogin)
    /\ Involved(processed[2]) # {}
    /\ \E k \in Involved(processed[1]) \ Involved(processed[2]) :
           SummariesOf(reviewers, k, 1) # {}

\* ------------------------------------------------ the author as reviewer
\* C28: for every processed pull request, the author has no summary of that
\* pull request in the reviewer aggregate and no entry in its annotation,
\* whether the author wrote reviews of it or is among its requested
\* reviewers.
C28_AuthorNeverReviewer ==
    \A p \in ProcessedPRs :
        p.authorLogin \in Logins =>
            /\ SummariesOf(reviewers, p.authorLogin, p.number) = {}
            /\ \A a \in SummariesOf(authors, p.authorLogin, p.number) :
                   \A i \in 1..Len(a.reviewers) : a.reviewers[i].login # p.authorLogin

\* ------------------------------------------------ total of the author counts
RECURSIVE SumOfCounts(_)
SumOfCounts(auths) ==
    IF auths = <<>> THEN 0 ELSE auths[1].count + SumOfCounts(Tail(auths))

\* C30: after k processed pull requests the counts of all authors, "Unknown"
\* included, add up to k; in the written report they add up to the reported
\* total, which is the number of pull requests of the snapshot.
C30_CountsAddUp ==
    /\ SumOfCounts(authors) = Len(processed)
    /\ pc = "written" =>
           /\ SumOfCounts(report[1].authors) = report[1].totalOpenPRs
           /\ report[1].totalOpenPRs = totalOpenPRs
           /\ totalOpenPRs = Len(processed)

\* C30 witness: the report of a snapshot of three pull requests is written,
\* one of them without author and two by the same author.
C30_Witness ==
    /\ pc = "written"
    /\ report[1].totalOpenPRs = 3
    /\ HasKey(authors, "Unknown")
    /\ \E k \in Keys(authors) \cap Logins : authors[IndexOf(authors, k)].count = 2

\* ------------------------------------------------ ticket references
\* the ids the anchors of the current pull request show
JiraIds == [i \in 1..Len(jiraLinks) |-> jiraLinks[i].text]

FirstIndex(s, x) == CHOOSE i \in 1..Len(s) : s[i] = x /\ \A j \in 1..(i - 1) : s[j] # x

\* C21: the ids extracted from the title of a pull request are the matched
\* tokens, each once, in the order of their first occurrence in the title;
\* there are none when the title is absent or has no match; removing
\* repetitions from the ids changes nothing.
C21_DistinctInOrder ==
    prNumber > 0 =>
        LET matches == Match(prTitle, 1)
        IN  /\ {JiraIds[i] : i \in 1..Len(JiraIds)} = {matches[i] : i \in 1..Len(matches)}
            /\ \A i, j \in 1..Len(JiraIds) :
                   i < j => /\ JiraIds[i] # JiraIds[j]
                            /\ FirstIndex(matches, JiraIds[i]) < FirstIndex(matches, JiraIds[j])
            /\ (prTitle = NoTitle \/ matches = <<>>) => JiraIds = <<>>
            /\ Unique(JiraIds) = JiraIds

\* C21 witness: the title OCMUI-42 OCMUI-42 OCMUI-7 gives OCMUI-42, OCMUI-7.
C21_Witness ==
    /\ prNumber > 0
    /\ prTitle = JiraPrefix \o <<"4", "2", " ">> \o JiraPrefix \o <<"4", "2", " ">>
                     \o JiraPrefix \o <<"7">>
    /\ JiraIds = <<JiraPrefix \o <<"4", "2">>, JiraPrefix \o <<"7">>>>

UpperCase ==
    {"A", "B", "C", "D", "E", "F", "G", "H", "I", "J", "K", "L", "M",
     "N", "O", "P", "Q", "R", "S", "T", "U", "V", "W", "X", "Y", "Z"}

\* the digits of str from position i on end at position e
DigitsFromTo(str, i, e) ==
    /\ e \in i..Len(str)
    /\ \A k \in i..e : str[k] \in Digits
    /\ e = Len(str) \/ str[e + 1] \notin Digits

\* the tokens <code>-<digits> of str whose code is one of codes: the code is
\* followed by a hyphen and by all the digits that come next
TokensOf(str, codes) ==
    {SubSeq(str, i, e) : <<i, e>> \in
        {ie \in (1..Len(str)) \X (1..Len(str)) :
            \E c \in codes :
                /\ ie[1] + Len(c) + 1 <= ie[2]
                /\ SubSeq(str, ie[1], ie[1] + Len(c) - 1) = c
                /\ str[ie[1] + Len(c)] = "-"
                /\ DigitsFromTo(str, ie[1] + Len(c) + 1, ie[2])}}

\* the upper case project codes that start at a position of str where a
\* search from the left arrives (no upper case letter before them)
CodesIn(str) ==
    {SubSeq(str, i, j) : <<i, j>> \in
        {ij \in (1..Len(str)) \X (1..Len(str)) :
            /\ ij[1] <= ij[2]
            /\ \A k \in ij[1]..ij[2] : str[k] \in UpperCase
            /\ ij[1] = 1 \/ str[ij[1] - 1] \notin UpperCase}}

\* C22 (as claimed): the ids extracted from a title are its tokens
\* <upper case project code>-<digits>, whatever the project code.
C22_AnyProjectCode ==
    (prNumber > 0 /\ prTitle # NoTitle) =>
        {JiraIds[i] : i \in 1..Len(JiraIds)} = TokensOf(prTitle, CodesIn(prTitle))

\* C22 (amended): the ids extracted from a title are its tokens
\* OCMUI-<digits>, each with all the digits that follow the hyphen; a token
\* of another project code or in lower case is no id.
C22_OcmuiTokens ==
    (prNumber > 0 /\ prTitle # NoTitle) =>
        {JiraIds[i] : i \in 1..Len(JiraIds)} = TokensOf(prTitle, {SubSeq(JiraPrefix, 1, 5)})

\* C22 witness: of the title OCMUI-42 PROJECT-123OCMUI-7 the ids are OCMUI-42
\* and OCMUI-7.
C22_Witness ==
    /\ prNumber > 0
    /\ prTitle = JiraPrefix \o <<"4", "2", " ">>
                     \o <<"P", "R", "O", "J", "E", "C", "T", "-", "1", "2", "3">>
                     \o JiraPrefix \o <<"7">>
    /\ JiraIds = <<JiraPrefix \o <<"4", "2">>, JiraPrefix \o <<"7">>>>

\* ------------------------------------------------ name registries
\* the nodes read that carry a name and a login in one of the roles, reviews
\* of the author's own pull request left aside
Carriers(roles, login) ==
    {i \in 1..Len(nameLog) :
        /\ nameLog[i].role \in roles
        /\ nameLog[i].login = login
        /\ ~nameLog[i].self}

LastOf(indices) == CHOOSE i \in indices : \A j \in indices : j <= i

\* the registry maps a login iff a node of one of the roles carried the login
\* and a name, and then to the name of the last of these nodes
LastNameWins(names, roles) ==
    \A login \in Logins :
        /\ HasKey(names, login) <=> Carriers(roles, login) # {}
        /\ HasKey(names, login) =>
               names[IndexOf(names, login)].name = nameLog[LastOf(Carriers(roles, login))].name

AllRoles == {"author", "requested", "review"}

\* C23 (as claimed): a login has a registered name iff a node read (pull
\* request author, requested reviewer or review of another's pull request)
\* carried the login and a name, and every name registered for the login is
\* the name of the last such node.
C23_LastRecordWins ==
    \A login \in Logins :
        /\ (HasKey(authorNames, login) \/ HasKey(reviewerNames, login))
               <=> Carriers(AllRoles, login) # {}
        /\ \A names \in {authorNames, reviewerNames} :
               HasKey(names, login) =>
                   names[IndexOf(names, login)].name
                       = nameLog[LastOf(Carriers(AllRoles, login))].name

\* ------------------------------------------------ the draft flag
\* summaries and aggregates with the draft flags blanked
NoDraft(details) == [i \in 1..Len(details) |-> [details[i] EXCEPT !.isDraft = FALSE]]

AggregateNoDraft(m) == [i \in 1..Len(m) |-> [m[i] EXCEPT !.prDetails = NoDraft(@)]]

\* What is recorded of every processed pull request is what its reviews and
\* requests alone give, and the draft flag is recorded as read.
DraftIsCarriedOnly ==
    \A p \in ProcessedPRs :
        /\ (ReadyEntriesOf(p.number) # {})
               <=> (Cardinality(Approvers(p)) >= REQUIRED_APPROVALS)
        /\ \A e \in ReadyEntriesOf(p.number) : e.isDraft = p.isDraft
        /\ \A a \in SummariesOf(authors, PrAuthor(p.authorLogin), p.number) :
               /\ a.status = ExpectedStatus(p)
               /\ a.approvals = Cardinality(Approvers(p))
               /\ a.isDraft = p.isDraft
        /\ \A r \in Involved(p) :
               \A e \in SummariesOf(reviewers, r, p.number) :
                  /\ e.status = ExpectedStatus(p)
                  /\ e.approvals = Cardinality(Approvers(p))
                  /\ e.isPending = ExpectedPending(p, r)
                  /\ e.isDraft = p.isDraft

\* C29: the draft flag of a pull request is carried into its summaries and
\* decides nothing: status, approvals, isPending and the ready-to-merge entry
\* are what reviews and requests give, a draft included, and the step that
\* aggregates a pull request gives, for either value of the flag and whatever
\* the flags recorded before, the same aggregates, pending counts and
\* ready-to-merge list up to the isDraft fields.
C29_DraftDecidesNothing ==
    /\ []DraftIsCarriedOnly
    /\ [][ProcessesPR =>
            \A d \in BOOLEAN :
                /\ AggregateNoDraft(reviewers')
                      = AggregateNoDraft(
                            TrackReviewers(AggregateNoDraft(reviewers), prNumber, authorLogin,
                                           requestedReviewers, reviewerStatus,
                                           AllReviewers(requestedReviewers, reviewerStatus),
                                           daysOpen, prTitle, d, jiraLinks))
                /\ AggregateNoDraft(authors')
                      = AggregateNoDraft(
                            TrackAuthor(AggregateNoDraft(authors), prNumber, authorLogin,
                                        requestedReviewers, reviewerStatus,
                                        daysOpen, prTitle, d, jiraLinks))
                /\ NoDraft(readyToMergePRs')
                      = NoDraft(TrackReady(NoDraft(readyToMergePRs), prNumber, authorLogin,
                                           reviewerStatus, daysOpen, prTitle, d, jiraLinks))]_vars

\* C29 witness: a draft with the required approvals is listed as ready to
\* merge, after a pull request that is no draft.
C29_Witness ==
    /\ Len(processed) = 2
    /\ ~processed[1].isDraft
    /\ processed[2].isDraft
    /\ \E e \in ReadyEntriesOf(2) : e.isDraft /\ e.approvals = REQUIRED_APPROVALS
    /\ \E a \in SummariesOf(authors, PrAuthor(processed[2].authorLogin), 2) :
           a.isDraft /\ a.status = "ready_to_merge"

\* ------------------------------------------------ two runs on one snapshot
\* the second run on the snapshot has written its report
SecondRunDone == run = 2 /\ pc = "written"

\* summaries and aggregates with the fields of the age blanked
NoAge(details) ==
    [i \in 1..Len(details) |->
        [details[i] EXCEPT !.daysOpen = 0, !.daysOpenColor = Color(0)]]

AggregateNoAge(m) == [i \in 1..Len(m) |-> [m[i] EXCEPT !.prDetails = NoAge(@)]]

Entries(s) == {s[i] : i \in 1..Len(s)}

AgeOf(p) == DaysOpen(p.readAt, p.createdAt)

\* every pull request got the same age in both runs
SameAges ==
    /\ Len(processed) = Len(earlier[1].processed)
    /\ \A i \in 1..Len(processed) : AgeOf(processed[i]) = AgeOf(earlier[1].processed[i])

====
